---------------------------- MODULE Spec2Model ----------------------------
(***************************************************************************)
(* wgettos.py: download one URL to a file, optionally setting the IP TOS   *)
(* byte on the client's sockets, printing progress while streaming.        *)
(*                                                                         *)
(* Strings are sequences of one-character strings.  An optional value      *)
(* (Python None or a value) is a sequence of length 0 or 1.  Time is       *)
(* counted in clock ticks of a quarter of a second, so the 0.5 s of the    *)
(* progress throttle is HalfSecond == 2 ticks.  Byte counts are small      *)
(* numbers; MaxChunk stands for the 1024-byte read size.                   *)
(***************************************************************************)
EXTENDS Integers, Sequences, FiniteSets, TLC

VARIABLES
    url, custom_tos, output,      \* arguments of download_with_speed
    headers, body,                \* the response: Content-Length header, body size
    now, remaining,               \* the clock; body bytes not yet delivered
    pc, error,                    \* position in the code; the exception that ended the run
    start_time, downloaded_bytes, displayed_time,
    content_length, percent, size,
    socket_options, issued,       \* manager.connection_pool_kw; GET requests issued
    filename, chunk,
    response_open, file_open,     \* the two `with` resources
    prior, disk, written,         \* the file at the output path, before and now; bytes written
    lines, summary, saved         \* standard output

args   == <<url, custom_tos, output, headers, body, prior>>
locals == <<start_time, downloaded_bytes, displayed_time, content_length,
            percent, size, socket_options, filename, chunk>>
out    == <<lines, summary, saved>>
vars   == <<args, now, remaining, pc, error, locals, issued,
            response_open, file_open, disk, written, out>>

---------------------------------------------------------------------------
\* Bounds of the model.
MaxBody  == 3      \* largest response body, in bytes
MaxChunk == 2      \* largest chunk one read of the stream yields (stands for 1024)
MaxStep  == 2      \* most clock ticks that pass between two readings of the clock

\* 0.5 seconds, in clock ticks.
HalfSecond == 2

None == <<>>
Some(v) == <<v>>

Min(a, b) == IF a < b THEN a ELSE b

\* Inputs the runs are drawn from.
Urls == { <<"h", "/", "a", ".", "b">>,      \* h/a.b
          <<"h", "/", "d", "/">>,           \* h/d/   (trailing slash)
          <<"a", ".", "b">> }               \* a.b    (no slash at all)
Outputs == { None, Some(<<>>), Some(<<"o">>) }
TosValues == { None, Some(0), Some(16) }
HeaderValues == { None, Some(<<"0">>), Some(<<"3">>), Some(<<"8">>),
                  Some(<<"0", "8">>), Some(<<"x">>) }
DiskStates == { [state |-> "absent", len |-> 0], [state |-> "old", len |-> 1] }

---------------------------------------------------------------------------
\* Pure functions of the code.

\* custom_tos is not None  =>  socket_options = [(IPPROTO_IP, IP_TOS, custom_tos)]
\* (otherwise the key is never set: no socket options)
TosOption(v) == <<"IPPROTO_IP", "IP_TOS", v>>
SocketOptionsIfTruthy(tos) == IF tos # None /\ tos[1] # 0 THEN <<TosOption(tos[1])>> ELSE <<>>
SocketOptions(tos) == IF tos # None THEN <<TosOption(tos[1])>> ELSE <<>>

\* os.path.basename: what follows the last "/"
RECURSIVE basename(_)
basename(p) ==
    IF p = <<>> THEN <<>>
    ELSE IF p[Len(p)] = "/" THEN <<>>
    ELSE Append(basename(SubSeq(p, 1, Len(p) - 1)), p[Len(p)])

\* output or os.path.basename(url): an empty output is falsy, like None
FilenameIfNotNone(o, u) == IF o # None THEN o[1] ELSE basename(u)
Filename(o, u) == IF o # None /\ o[1] # <<>> THEN o[1] ELSE basename(u)

\* int(text) for a header value: decimal digits, or ValueError
Digits == <<"0", "1", "2", "3", "4", "5", "6", "7", "8", "9">>
IsDigit(c) == \E i \in 1..10 : Digits[i] = c
DigitValue(c) == (CHOOSE i \in 1..10 : Digits[i] = c) - 1
IsInt(s) == s # <<>> /\ \A i \in 1..Len(s) : IsDigit(s[i])
RECURSIVE int(_)
int(s) == IF s = <<>> THEN 0
          ELSE 10 * int(SubSeq(s, 1, Len(s) - 1)) + DigitValue(s[Len(s)])

\* f"{downloaded_bytes / size * 100:3.0f}": rounded to the nearest integer,
\* a tie going to the even one
PercentFloor(d, s) == (100 * d) \div s
PercentOf(d, s) ==
    LET q == (100 * d) \div s
        r == (100 * d) % s
    IN  IF 2 * r < s THEN q
        ELSE IF 2 * r > s THEN q + 1
        ELSE IF q % 2 = 0 THEN q ELSE q + 1

\* elapsed_time >= displayed_time
Due(elapsed_time, shown) == elapsed_time >= shown

\* displayed_time = elapsed_time + 0.5
NextDisplayNoWait(elapsed_time, shown) == elapsed_time
NextDisplay(elapsed_time, shown) == elapsed_time + HalfSecond

\* downloaded_bytes += len(chunk)
CountChunks(d, c) == d + 1
Count(d, c) == d + c

\* downloaded_bytes / elapsed_time, as the fraction <<bytes, ticks>>
Speed(d, elapsed_time) == <<d, elapsed_time>>

\* A reading of time.time(): the clock does not run backwards.
Clock == now .. (now + MaxStep)

---------------------------------------------------------------------------
Init ==
    /\ url \in Urls
    /\ custom_tos \in TosValues
    /\ output \in Outputs
    /\ headers \in HeaderValues
    /\ body \in 0..MaxBody
    /\ prior \in DiskStates
    /\ disk = prior
    /\ now = 0
    /\ remaining = body
    /\ pc = "init"
    /\ error = "none"
    /\ start_time = 0
    /\ downloaded_bytes = 0
    /\ displayed_time = 0
    /\ content_length = <<>>
    /\ percent = None
    /\ size = 0
    /\ socket_options = <<>>
    /\ issued = <<>>
    /\ filename = <<>>
    /\ chunk = 0
    /\ response_open = FALSE
    /\ file_open = FALSE
    /\ written = 0
    /\ lines = <<>>
    /\ summary = None
    /\ saved = None

\* An exception leaves the function: the `with` blocks it passes through
\* close the file and the response, nothing catches it, nothing is undone.
RaiseLeak(e) ==
    /\ pc' = "failed"
    /\ error' = e
    /\ UNCHANGED <<file_open, response_open>>
Raise(e) ==
    /\ pc' = "failed"
    /\ error' = e
    /\ file_open' = FALSE
    /\ response_open' = FALSE

\* lines 26-39
Setup ==
    /\ pc = "init"
    /\ start_time' = now
    /\ downloaded_bytes' = 0
    /\ displayed_time' = 0
    /\ content_length' = <<>>
    /\ percent' = None
    /\ size' = 0
    /\ socket_options' = SocketOptions(custom_tos)
    /\ pc' = "request"
    /\ UNCHANGED <<args, now, remaining, error, issued, filename, chunk,
                   response_open, file_open, disk, written, out>>

\* line 42: manager.request('GET', url, preload_content=False)
RequestTruncates ==
    /\ pc = "request"
    /\ issued' = Append(issued, socket_options)
    /\ disk' = [state |-> "new", len |-> 0]
    /\ \/ /\ response_open' = TRUE
          /\ pc' = "headers"
          /\ UNCHANGED <<error, file_open>>
       \/ Raise("MaxRetryError")
    /\ UNCHANGED <<args, now, remaining, locals, written, out>>
Request ==
    /\ pc = "request"
    /\ issued' = Append(issued, socket_options)
    /\ \/ /\ response_open' = TRUE
          /\ pc' = "headers"
          /\ UNCHANGED <<error, file_open>>
       \/ Raise("MaxRetryError")
    /\ UNCHANGED <<args, now, remaining, locals, disk, written, out>>

\* lines 44-47
Headers ==
    /\ pc = "headers"
    /\ filename' = Filename(output, url)
    /\ IF headers = None
       THEN /\ pc' = "open"
            /\ UNCHANGED <<content_length, size, error, file_open, response_open>>
       ELSE /\ content_length' = <<"/">> \o headers[1]
            /\ IF IsInt(headers[1])
               THEN /\ size' = int(headers[1])
                    /\ pc' = "open"
                    /\ UNCHANGED <<error, file_open, response_open>>
               ELSE /\ Raise("ValueError")
                    /\ UNCHANGED size
    /\ UNCHANGED <<args, now, remaining, start_time, downloaded_bytes,
                   displayed_time, percent, socket_options, chunk, issued,
                   disk, written, out>>

\* line 50: open(filename, 'wb') creates or truncates; an empty name cannot be opened
Open ==
    /\ pc = "open"
    /\ \/ /\ filename # <<>>
          /\ file_open' = TRUE
          /\ disk' = [state |-> "new", len |-> 0]
          /\ pc' = "loop"
          /\ UNCHANGED <<error, response_open>>
       \/ /\ Raise("OSError")
          /\ UNCHANGED disk
    /\ UNCHANGED <<args, now, remaining, locals, issued, written, out>>

\* line 51: the stream yields the next chunk, or the read fails
Read ==
    /\ pc = "loop"
    /\ \/ /\ remaining > 0
          /\ \E n \in 1..Min(MaxChunk, remaining) :
                /\ chunk' = n
                /\ remaining' = remaining - n
          /\ pc' = "progress"
          /\ UNCHANGED <<error, file_open, response_open>>
       \/ /\ Raise("ProtocolError")
          /\ UNCHANGED <<chunk, remaining>>
    /\ UNCHANGED <<args, now, start_time, downloaded_bytes, displayed_time,
                   content_length, percent, size, socket_options, filename,
                   issued, disk, written, out>>

\* lines 52-61
Progress ==
    /\ pc = "progress"
    /\ \E t \in Clock :
        LET elapsed_time == t - start_time
            d == Count(downloaded_bytes, chunk)
            p == IF size > 0 THEN Some(PercentOf(d, size)) ELSE percent
        IN  /\ now' = t
            /\ downloaded_bytes' = d
            /\ IF Due(elapsed_time, displayed_time)
               THEN /\ percent' = p
                    /\ IF elapsed_time = 0
                       THEN /\ Raise("ZeroDivisionError")
                            /\ UNCHANGED <<lines, displayed_time>>
                       ELSE /\ lines' = Append(lines,
                                   [bytes |-> d, total |-> content_length,
                                    percent |-> p,
                                    speed |-> Speed(d, elapsed_time),
                                    at |-> elapsed_time,
                                    chunk |-> chunk, written |-> written])
                            /\ displayed_time' = NextDisplay(elapsed_time, displayed_time)
                            /\ pc' = "write"
                            /\ UNCHANGED <<error, file_open, response_open>>
               ELSE /\ pc' = "write"
                    /\ UNCHANGED <<percent, lines, displayed_time, error,
                                   file_open, response_open>>
    /\ UNCHANGED <<args, remaining, start_time, content_length, size,
                   socket_options, filename, chunk, issued, disk, written,
                   summary, saved>>

\* line 64: file.write(chunk)
Write ==
    /\ pc = "write"
    /\ \/ /\ written' = written + chunk
          /\ disk' = [disk EXCEPT !.len = @ + chunk]
          /\ pc' = "loop"
          /\ UNCHANGED <<error, file_open, response_open>>
       \/ /\ Raise("OSError")
          /\ UNCHANGED <<written, disk>>
    /\ UNCHANGED <<args, now, remaining, locals, issued, out>>

\* lines 51, 65: the stream is exhausted; both `with` blocks are left
Exhausted ==
    /\ pc = "loop"
    /\ remaining = 0
    /\ file_open' = FALSE
    /\ response_open' = FALSE
    /\ pc' = "final"
    /\ UNCHANGED <<args, now, remaining, error, locals, issued, disk,
                   written, out>>

\* lines 68-71
FinalSavedFirst ==
    /\ pc = "final"
    /\ \E t \in Clock :
        LET elapsed_time == t - start_time
        IN  /\ now' = t
            /\ saved' = Some(filename)
            /\ IF elapsed_time = 0
               THEN /\ Raise("ZeroDivisionError")
                    /\ UNCHANGED summary
               ELSE /\ summary' = Some([bytes |-> downloaded_bytes,
                                        seconds |-> elapsed_time,
                                        speed |-> Speed(downloaded_bytes, elapsed_time)])
                    /\ pc' = "done"
                    /\ UNCHANGED <<error, file_open, response_open>>
    /\ UNCHANGED <<args, remaining, locals, issued, disk, written, lines>>
Final ==
    /\ pc = "final"
    /\ \E t \in Clock :
        LET elapsed_time == t - start_time
        IN  /\ now' = t
            /\ IF elapsed_time = 0
               THEN /\ Raise("ZeroDivisionError")
                    /\ UNCHANGED <<summary, saved>>
               ELSE /\ summary' = Some([bytes |-> downloaded_bytes,
                                        seconds |-> elapsed_time,
                                        speed |-> Speed(downloaded_bytes, elapsed_time)])
                    /\ saved' = Some(filename)
                    /\ pc' = "done"
                    /\ UNCHANGED <<error, file_open, response_open>>
    /\ UNCHANGED <<args, remaining, locals, issued, disk, written, lines>>

Next ==
    \/ Setup
    \/ Request
    \/ Headers
    \/ Open
    \/ Read
    \/ Progress
    \/ Write
    \/ Exhausted
    \/ Final

Spec == Init /\ [][Next]_vars

\* The program is one sequential thread: it takes its next step.
FairSpec == Spec /\ WF_vars(Next)

---------------------------------------------------------------------------
\* Properties.

Terminal == pc \in {"done", "failed"}
Closed == ~file_open /\ ~response_open

\* Line 44 has run: the destination filename is decided.
Resolved == \/ pc \in {"open", "loop", "progress", "write", "final", "done"}
            \/ pc = "failed" /\ error # "MaxRetryError"

\* C1: a run that finishes has written exactly the body's bytes to the file,
\* and its summary line reports that many bytes.
ByteCountAccuracy ==
    pc = "done" =>
        /\ written = body
        /\ disk = [state |-> "new", len |-> body]
        /\ summary # None /\ summary[1].bytes = body
ByteCountWitness ==
    pc = "done" /\ body = MaxBody /\ Len(lines) >= 1 /\ written = MaxBody

\* C2: no run fails by dividing by an elapsed time of zero.
NoZeroDivisionCrash == ~(pc = "failed" /\ error = "ZeroDivisionError")

\* C3: a supplied marking (0 included) is the client's only socket option from
\* before the GET request is issued until the run ends; with no marking the
\* client has no socket option at any point; one request is issued at most.
TosApplied ==
    /\ custom_tos = None => socket_options = <<>>
    /\ custom_tos # None /\ pc # "init" =>
           socket_options = << <<"IPPROTO_IP", "IP_TOS", custom_tos[1]>> >>
    /\ Len(issued) <= 1
    /\ \A i \in 1..Len(issued) : issued[i] = socket_options
TosWitness ==
    /\ pc = "done"
    /\ custom_tos = Some(0)
    /\ issued = << << <<"IPPROTO_IP", "IP_TOS", 0>> >> >>

\* C4 as stated: consecutive progress lines are at least 0.5 s apart, and the
\* next display tick is 0.5 s times the number of displays so far.
ProgressOnGrid ==
    /\ \A i \in 1..(Len(lines) - 1) : lines[i + 1].at - lines[i].at >= HalfSecond
    /\ displayed_time = HalfSecond * Len(lines)
\* C4 amended: consecutive progress lines are at least 0.5 s apart; the next
\* display tick is 0 before the first display and afterwards the elapsed time
\* of the latest display plus 0.5 s.
ProgressCadence ==
    /\ \A i \in 1..(Len(lines) - 1) : lines[i + 1].at - lines[i].at >= HalfSecond
    /\ lines = <<>> => displayed_time = 0
    /\ lines # <<>> => displayed_time = lines[Len(lines)].at + HalfSecond
ProgressCadenceWitness ==
    /\ Len(lines) >= 2
    /\ lines[2].at - lines[1].at > HalfSecond
    /\ pc = "write"

\* The percentage p shown for d bytes of a total of s is 100 * d / s to the
\* nearest integer.
Nearest(p, d, s) ==
    LET diff == 100 * d - p * s
    IN  2 * (IF diff < 0 THEN -diff ELSE diff) <= s

\* C5 as stated: with a Content-Length header every progress line shows
\* "/total" and the numeric percentage; without one, "??%" and no total.
PercentWheneverDeclared ==
    \A i \in 1..Len(lines) :
        IF headers # None
        THEN /\ lines[i].total = <<"/">> \o headers[1]
             /\ lines[i].percent # None
             /\ Nearest(lines[i].percent[1], lines[i].bytes, int(headers[1]))
        ELSE lines[i].total = <<>> /\ lines[i].percent = None
\* C5 amended: with a Content-Length header of a positive total every progress
\* line shows "/total" and the percentage rounded to the nearest integer (250
\* of 1000 is 25); with a header of total zero it shows "/total" and "??%";
\* without a header it shows "??%" and no total.
PercentShown ==
    /\ PercentOf(250, 1000) = 25
    /\ \A i \in 1..Len(lines) :
        IF headers # None
        THEN /\ lines[i].total = <<"/">> \o headers[1]
             /\ IF int(headers[1]) > 0
                THEN /\ lines[i].percent # None
                     /\ Nearest(lines[i].percent[1], lines[i].bytes, int(headers[1]))
                ELSE lines[i].percent = None
        ELSE lines[i].total = <<>> /\ lines[i].percent = None
PercentWitness ==
    /\ Len(lines) >= 2
    /\ headers = Some(<<"3">>)
    /\ lines[1].percent = Some(33)
    /\ lines[2].percent = Some(100)

\* C6: in every terminal state the file and the response are closed, and in
\* a run that finishes both are closed before the summary line is printed.
ResourcesReleased ==
    /\ Terminal => Closed
    /\ pc = "final" => Closed
    /\ summary # None => Closed
    /\ file_open => response_open /\ disk.state = "new"
ResourcesReleasedWitness ==
    /\ pc = "failed" /\ error = "OSError"
    /\ disk.state = "new" /\ written > 0 /\ written < downloaded_bytes
    /\ Closed

NoSlash(s) == \A i \in 1..Len(s) : s[i] # "/"
\* f is what follows the last "/" of u, or all of u when it has none
LastComponent(f, u) ==
    /\ NoSlash(f)
    /\ Len(f) <= Len(u)
    /\ SubSeq(u, Len(u) - Len(f) + 1, Len(u)) = f
    /\ Len(f) < Len(u) => u[Len(u) - Len(f)] = "/"

Phase == CASE pc = "init" -> "not started"
           [] pc = "done" -> "finished"
           [] pc = "failed" -> "failed"
           [] OTHER -> "streaming"
PhaseStep ==
    \/ Phase = "not started" /\ Phase' = "streaming"
    \/ Phase = "streaming" /\ Phase' \in {"streaming", "finished", "failed"}
StreamEnded == pc = "loop" /\ remaining = 0

\* C8: a run goes not started -> streaming -> finished or failed and never
\* leaves a terminal state; once the stream has ended it reaches a terminal
\* state; the summary and "File saved as" lines exist only in a finished run.
RunLifecycle ==
    /\ [][PhaseStep]_vars
    /\ [](summary # None \/ saved # None => pc = "done")
    /\ StreamEnded ~> Terminal
RunLifecycleWitness ==
    /\ pc = "failed" /\ error = "ZeroDivisionError"
    /\ body = 0 /\ disk = [state |-> "new", len |-> 0]
    /\ summary = None /\ saved = None

\* C9 as stated: at every progress line the bytes reported are the bytes
\* already written to the file.
ReportedEqualsWritten ==
    \A i \in 1..Len(lines) : lines[i].bytes = lines[i].written
\* C9 amended: the counter is increased before the chunk's progress line and
\* the chunk is written after it, so at every progress line the bytes reported
\* are the bytes already written plus the current chunk; the counter never
\* decreases.
ReportedAheadOfWritten ==
    /\ [](\A i \in 1..Len(lines) :
            /\ lines[i].chunk > 0
            /\ lines[i].bytes = lines[i].written + lines[i].chunk)
    /\ [](pc = "write" => downloaded_bytes = written + chunk)
    /\ [][downloaded_bytes' >= downloaded_bytes]_vars
ReportedAheadWitness ==
    /\ Len(lines) >= 2
    /\ lines[2].chunk = MaxChunk
    /\ lines[2].written > 0
    /\ pc = "loop"

\* C10: the file is created or truncated only after the request has returned
\* a response; a run that fails issuing the request leaves the output path
\* as it was; a run that fails after opening the file leaves what it wrote.
FileOpenedAfterResponse ==
    /\ disk # prior => Len(issued) = 1 /\ error # "MaxRetryError"
                       /\ pc \notin {"init", "request", "headers", "open"}
    /\ pc = "failed" /\ error = "MaxRetryError" => disk = prior
    /\ pc = "failed" /\ disk # prior => disk = [state |-> "new", len |-> written]
FileOpenedWitness ==
    /\ pc = "failed" /\ error = "MaxRetryError"
    /\ prior.state = "old" /\ disk = prior

===========================================================================
